---- MODULE Spec2Model ----
(***************************************************************************)
(* A model of lrc-fetcher.py: the remote lyric resolver                    *)
(* (fetch_lrc_from_lrclib), the per-song job (process_song), the counters  *)
(* of ProgressTracker with their lock, and the thread pool loop of         *)
(* process_music_library.                                                  *)
(*                                                                         *)
(* Lyric text is a sequence of one-character strings.  "0" and "1" stand   *)
(* for decimal digits, "a", "g" and "n" for Latin letters, "H" for a       *)
(* Hangul syllable (U+AC00..U+D7A3) and "J" for a kana or kanji character. *)
(***************************************************************************)
EXTENDS Integers, Sequences, FiniteSets, TLC

\* ------------------------------------------------------------------ bounds

\* Work items queued by the scan.
MaxItems == 2
\* Durations (seconds) range over 0..MaxDur; 0 is "no duration" (falsy).
MaxDur == 4
\* Longest candidate list the fuzzy search answers with.
MaxResults == 2
\* Lyric texts given to the transformer are made of up to MaxPieces pieces.
MaxPieces == 3
\* Songs queued beyond the number of workers of the pool.
MaxWaiting == 1

\* ------------------------------------------------------- program constants

MAX_WORKERS == 10
\* diff <= 3 in the fuzzy search's duration filter.
DurationTolerance == 3
\* HTTP status that counts as an answer.
StatusOK == 200
\* f.read(1000) in check_if_file_synced.
ReadLimit == 1000

\* -------------------------------------------------------------------- text

\* Python's None where a text is expected: no text has this element.
None == <<"None">>

IsDigit(c) == c \in {"0", "1"}
IsLatinLetter(c) == c \in {"a", "g", "n"}
IsSpace(c) == c \in {" ", "\n"}
IsKorean(c) == c = "H"
IsJapanese(c) == c = "J"

\* The characters of the model's texts, and the texts.
Chars == {"[", "]", ":", ".", "0", "1", "a", "g", "n", " ", "\n", "H", "J"}
Text == Seq(Chars)

CharAt(s, i, c) == i <= Len(s) /\ s[i] = c
DigitAt(s, i) == i <= Len(s) /\ IsDigit(s[i])

\* Length of the match of \[\d{2}:\d{2}(?:\.\d{2,3})?\] at position i, 0 if none.
TimestampLenAt(s, i) ==
  IF /\ CharAt(s, i, "[") /\ DigitAt(s, i + 1) /\ DigitAt(s, i + 2)
     /\ CharAt(s, i + 3, ":") /\ DigitAt(s, i + 4) /\ DigitAt(s, i + 5)
  THEN IF CharAt(s, i + 6, "]") THEN 7
       ELSE IF CharAt(s, i + 6, ".") /\ DigitAt(s, i + 7) /\ DigitAt(s, i + 8)
            THEN IF CharAt(s, i + 9, "]") THEN 10
                 ELSE IF DigitAt(s, i + 9) /\ CharAt(s, i + 10, "]") THEN 11
                 ELSE 0
            ELSE 0
  ELSE 0

\* bool(re.search(r'\[\d{2}:\d{2}(?:\.\d{2,3})?\]', content))
check_if_content_synced(content) ==
  \E i \in 1..Len(content) : TimestampLenAt(content, i) > 0

\* `if x:` for a text or None: neither None nor the empty string.
Truthy(x) == x # None /\ x # <<>>

Abs(n) == IF n < 0 THEN -n ELSE n

\* ------------------------------------------------------------- transformer

Min(S) == CHOOSE x \in S : \A y \in S : x <= y
Max(S) == CHOOSE x \in S : \A y \in S : x >= y

\* str.strip(): leading and trailing whitespace removed.
Strip[s \in Text] ==
  LET solid == {i \in 1..Len(s) : ~IsSpace(s[i])}
  IN IF solid = {} THEN <<>> ELSE SubSeq(s, Min(solid), Max(solid))

\* str.split('\n'): always at least one line.
SplitLines[s \in Text] ==
  LET breaks == {i \in 1..Len(s) : s[i] = "\n"}
  IN IF breaks = {} THEN <<s>>
     ELSE <<SubSeq(s, 1, Min(breaks) - 1)>>
          \o SplitLines[SubSeq(s, Min(breaks) + 1, Len(s))]

\* "\n".join(lines)
JoinLines[lines \in Seq(Text)] ==
  IF lines = <<>> THEN <<>>
  ELSE IF Len(lines) = 1 THEN lines[1]
  ELSE lines[1] \o <<"\n">> \o JoinLines[Tail(lines)]

\* Transliter(academic).translit(text): Hangul syllables become Latin
\* letters, every other character is kept.
Translit[text \in Text] ==
  IF text = <<>> THEN <<>>
  ELSE (IF IsKorean(Head(text)) THEN <<"g", "a">> ELSE <<Head(text)>>)
       \o Translit[Tail(text)]

\* KATSU.romaji(text): kana and kanji become Latin letters.
Romaji[text \in Text] ==
  IF text = <<>> THEN <<>>
  ELSE (IF IsJapanese(Head(text)) THEN <<"n", "a">> ELSE <<Head(text)>>)
       \o Romaji[Tail(text)]

HasKorean(text) == \E i \in 1..Len(text) : IsKorean(text[i])
HasJapanese(text) == \E i \in 1..Len(text) : IsJapanese(text[i])

\* Lines 73-83: Korean is tested before Japanese.
romanize_text(text) ==
  IF HasKorean(text) THEN Translit[text]
  ELSE IF HasJapanese(text) THEN Romaji[text]
  ELSE text

\* re.match(r'^\[[a-zA-Z]+:', line): "[", one or more letters, ":".
IsMetadataLine(line) ==
  /\ CharAt(line, 1, "[")
  /\ \E c \in 3..Len(line) :
       /\ line[c] = ":"
       /\ \A i \in 2..(c - 1) : IsLatinLetter(line[i])

\* Lines 92-108: one line of convert_lrc_content's loop.
ConvertLine[raw \in Text] ==
  LET line == Strip[raw]
      n == TimestampLenAt(line, 1)
      lyric == Strip[SubSeq(line, n + 1, Len(line))]
  IN IF line = <<>> THEN <<>>
     ELSE IF n > 0
          THEN IF lyric = <<>> THEN SubSeq(line, 1, n)
               ELSE SubSeq(line, 1, n) \o <<" ">> \o romanize_text(lyric)
          ELSE IF IsMetadataLine(line) THEN line
          ELSE romanize_text(line)

\* Lines 85-110.
ConvertLines[lines \in Seq(Text)] ==
  [k \in 1..Len(lines) |-> ConvertLine[lines[k]]]
convert_lrc_content(lrc_content) ==
  JoinLines[ConvertLines[SplitLines[Strip[lrc_content]]]]

\* The text of the line that romanize_text is called with, <<>> if none.
RomanizedPart[raw \in Text] ==
  LET line == Strip[raw]
      n == TimestampLenAt(line, 1)
  IN IF n > 0 THEN Strip[SubSeq(line, n + 1, Len(line))]
     ELSE IF IsMetadataLine(line) THEN <<>>
     ELSE line

\* The romanization engines are run on the text (they are external and may
\* raise): some line of it reaches romanize_text with Korean or Japanese in it.
EngineRunsOnLines[lines \in Seq(Text)] ==
  \E k \in 1..Len(lines) :
    HasKorean(RomanizedPart[lines[k]]) \/ HasJapanese(RomanizedPart[lines[k]])
EngineRuns(lrc_content) == EngineRunsOnLines[SplitLines[Strip[lrc_content]]]

\* The texts the remote service answers with in the model.
Stamp == <<"[", "0", "0", ":", "0", "1", "]">>
SyncedA == Stamp \o <<" ", "a">>
SyncedH == Stamp \o <<" ", "H">>
PlainA == <<"a">>
PlainH == <<"H">>

\* ---------------------------------------------------------------- resolver

Items == 1..MaxItems

\* What requests.get(LRCLIB_API_URL, ...) can do: raise (timeout, connection
\* error), or answer with a status and a body; json "bad" is a body whose
\* .json() or .get() raises; synced/plain are data.get("syncedLyrics") and
\* data.get("plainLyrics"), None for a key that is absent or null.
ExactResponse(raises, status, json, synced, plain) ==
  [raises |-> raises, status |-> status, json |-> json, synced |-> synced,
   plain |-> plain, results |-> <<>>]
SearchResponse(raises, status, json, results) ==
  [raises |-> raises, status |-> status, json |-> json, synced |-> None,
   plain |-> None, results |-> results]
\* The response variable before the request is made.
NoResponse ==
  [raises |-> FALSE, status |-> 0, json |-> "unset", synced |-> None,
   plain |-> None, results |-> <<>>]

RequestRaises == ExactResponse(TRUE, 0, "unset", None, None)

\* One element of the fuzzy search's JSON array; hasDuration is whether the
\* object has a "duration" key.
Candidate(synced, plain, hasDuration, dur) ==
  [synced |-> synced, plain |-> plain, hasDuration |-> hasDuration,
   duration |-> dur]

\* r.get("duration", 0)
CandidateDuration(r) == IF r.hasDuration THEN r.duration ELSE 0

\* diff <= 3 (line 152)
WithinToleranceStrict(diff) == diff < DurationTolerance
WithinTolerance(diff) == diff <= DurationTolerance

\* abs(r.get("duration", 0) - duration)
Diff(r, duration) == Abs(CandidateDuration(r) - duration)

\* valid_matches (lines 148-153): the indices of results, in order, of the
\* candidates within tolerance; empty when duration is falsy.
RECURSIVE ValidFrom(_, _, _)
ValidFrom(results, duration, i) ==
  IF i > Len(results) THEN <<>>
  ELSE (IF WithinTolerance(Diff(results[i], duration)) THEN <<i>> ELSE <<>>)
       \o ValidFrom(results, duration, i + 1)

valid_matches(results, duration) ==
  IF duration # 0 THEN ValidFrom(results, duration, 1) ELSE <<>>

\* key=lambda x: (1 if x[0].get("syncedLyrics") else 0, -x[1])
SyncedRank(r) == IF Truthy(r.synced) THEN 1 ELSE 0
SortKeyNearestFirst(r, duration) == <<0 - Diff(r, duration), SyncedRank(r)>>
SortKey(r, duration) == <<SyncedRank(r), 0 - Diff(r, duration)>>

\* Tuple comparison k1 > k2.
KeyGreater(k1, k2) == k1[1] > k2[1] \/ (k1[1] = k2[1] /\ k1[2] > k2[2])

\* list.sort(key, reverse=True) is stable: an element goes after every
\* element whose key is greater than or equal to its own.
RECURSIVE InsertDesc(_, _, _, _)
InsertDesc(i, sorted, results, duration) ==
  IF sorted = <<>> THEN <<i>>
  ELSE IF KeyGreater(SortKey(results[i], duration),
                     SortKey(results[Head(sorted)], duration))
       THEN <<i>> \o sorted
       ELSE <<Head(sorted)>> \o InsertDesc(i, Tail(sorted), results, duration)

RECURSIVE SortDesc(_, _, _)
SortDesc(idx, results, duration) ==
  IF idx = <<>> THEN <<>>
  ELSE InsertDesc(idx[Len(idx)],
                  SortDesc(SubSeq(idx, 1, Len(idx) - 1), results, duration),
                  results, duration)

\* Lines 155-159: the index in results of best_match (results is not empty).
BestMatch(results, duration) ==
  LET valid == valid_matches(results, duration)
  IN IF valid # <<>> THEN SortDesc(valid, results, duration)[1] ELSE 1

\* Lines 161-166 and 170: the text returned for best_match.
CandidateText(r) ==
  IF Truthy(r.synced) THEN r.synced
  ELSE IF Truthy(r.plain) THEN r.plain
  ELSE None

\* Lines 128-137: what the exact lookup's response leads to.
\*   "caught": an exception reaches line 168; "return": a text is returned;
\*   "fuzzy": execution goes on to attempt 2.
ExactStepSyncedOnly(resp) ==
  IF resp.raises THEN "caught"
  ELSE IF resp.status = StatusOK
       THEN IF resp.json = "bad" THEN "caught"
            ELSE IF Truthy(resp.synced) THEN "return"
            ELSE "fuzzy"
       ELSE "fuzzy"
ExactStep(resp) ==
  IF resp.raises THEN "caught"
  ELSE IF resp.status = StatusOK
       THEN IF resp.json = "bad" THEN "caught"
            ELSE IF Truthy(resp.synced) \/ Truthy(resp.plain) THEN "return"
            ELSE "fuzzy"
       ELSE "fuzzy"

ExactText(resp) == IF Truthy(resp.synced) THEN resp.synced ELSE resp.plain

\* Lines 142-166: what the search's response leads to.
SearchStep(resp) ==
  IF resp.raises THEN "caught"
  ELSE IF resp.status = StatusOK
       THEN IF resp.json = "bad" THEN "caught" ELSE "return"
       ELSE "return"


\* ------------------------------------------------------------------- paths

\* File names are sequences of one-character strings too.
NameA == <<"a", ".", "f", "l", "a", "c">>
NameAUpper == <<"a", ".", "F", "L", "A", "C">>
NameB == <<"b", ".", "f", "l", "a", "c">>
NameCover == <<"a", ".", "j", "p", "g">>
DotFlac == <<".", "f", "l", "a", "c">>
DotLrc == <<".", "l", "r", "c">>

\* str.lower() on the letters of the model's names.
LowerChar(c) ==
  IF c = "F" THEN "f"
  ELSE IF c = "L" THEN "l"
  ELSE IF c = "A" THEN "a"
  ELSE IF c = "C" THEN "c"
  ELSE c
Lower(name) == [i \in 1..Len(name) |-> LowerChar(name[i])]

\* str.endswith(suffix)
EndsWith(name, suffix) ==
  /\ Len(name) >= Len(suffix)
  /\ SubSeq(name, Len(name) - Len(suffix) + 1, Len(name)) = suffix

\* filename.lower().endswith('.flac') (line 287)
IsFlac(name) == EndsWith(Lower(name), DotFlac)

\* os.path.splitext(path)[0]: the path up to the last dot of its last
\* component; dots that lead the component do not start an extension.
SplitextRoot(name) ==
  LET dots == {i \in 1..Len(name) :
                 name[i] = "." /\ \E k \in 1..(i - 1) : name[k] # "."}
  IN IF dots = {} THEN name ELSE SubSeq(name, 1, Max(dots) - 1)

\* A file that os.walk yields: its directory, its name and, for an audio
\* file, what mutagen reads from it.
File(dir, name, meta) == [dir |-> dir, name |-> name, meta |-> meta]

\* os.path.join(root, filename) (line 289)
FlacPath(file) == [dir |-> file.dir, name |-> file.name]
\* os.path.splitext(flac_path)[0] + '.lrc' (line 290)
LrcPath(file) == [dir |-> file.dir, name |-> SplitextRoot(file.name) \o DotLrc]

\* What FLAC(filepath) gives: whether the file can be read, whether it has a
\* non-empty artist and title tag, and audio.info.length in half seconds.
Metadata(readable, artist, title, length) ==
  [readable |-> readable, artist |-> artist, title |-> title, length |-> length]

\* int(audio.info.length) if audio.info.length else None (line 50); None is 0.
DurationOf(meta) == IF meta.length # 0 THEN meta.length \div 2 ELSE 0

\* get_flac_metadata (lines 45-57): the message it prints, "" for none.
MetadataMessage(meta) ==
  IF ~meta.readable THEN "metadata_error"
  ELSE IF ~meta.artist \/ ~meta.title THEN "missing_metadata"
  ELSE ""

\* get_flac_metadata (lines 45-57): the triple it returns.
get_flac_metadata(meta) ==
  IF MetadataMessage(meta) # ""
  THEN [artist |-> FALSE, title |-> FALSE, duration |-> 0]
  ELSE [artist |-> TRUE, title |-> TRUE, duration |-> DurationOf(meta)]

\* all([artist, title, duration]) (line 320)
AllPresent(m) == m.artist /\ m.title /\ m.duration # 0

\* The dict appended to songs_to_process (lines 321-325).
WorkItem(file, dur, upgrade_attempt) ==
  [flac_path |-> FlacPath(file), lrc_path |-> LrcPath(file),
   artist |-> TRUE, title |-> TRUE, duration |-> dur,
   upgrade_attempt |-> upgrade_attempt]

\* check_if_file_synced (lines 63-71) for a file that open() can read.
check_if_file_synced(content) ==
  check_if_content_synced(
    SubSeq(content, 1, IF Len(content) < ReadLimit THEN Len(content) ELSE ReadLimit))

\* -------------------------------------------------------------------- state

\* The main thread, which runs process_music_library; worker j runs the job
\* of item j.
Main == 0
Threads == Items \cup {Main}

Counters == {"found", "not_found", "upgraded", "romanized", "embedded", "errors"}

VARIABLES
  do_romanize,      \* --romanize
  embed_lyrics,     \* --embed
  scan_unsynced,    \* --scan-unsynced: every queued item is an upgrade attempt
  is_dir,           \* os.path.isdir(music_dir)
  walk,             \* walk[j]: the j-th file that os.walk(music_dir) yields
  scan,             \* the locals of the scan loop (lines 280-325)
  songs_to_process, \* the queue the scan builds
  duration,         \* duration[j]: song_info['duration'] of item j
  pc,               \* pc[j]: where the job of item j is
  exact_response,   \* exact_response[j]: response of the exact lookup (a local)
  search_response,  \* search_response[j]: response of the fuzzy search (a local)
  best_match,       \* best_match[j]: index in results of best_match, 0 if unset
  fetched,          \* fetched[j]: what fetch_lrc_from_lrclib returns for item j
  lrc_content,      \* lrc_content[j]: the job's lrc_content, None before the fetch
  printed,          \* printed[j]: the messages printed about item j
  lrc_file,         \* lrc_file[j]: what the file at lrc_path holds, None if no file
  lyrics_tag,       \* lyrics_tag[j]: the LYRICS tag of the FLAC file, None if unset
  tracker,          \* the ProgressTracker's counters
  lock,             \* tracker.lock: the set of threads holding it
  inc,              \* inc[t]: the increment_* call thread t is in
  counted,          \* counted[j][c]: increment calls on counter c made for item j
  cpc,              \* where the main thread is
  submitted,        \* number of items handed to executor.submit
  reported,         \* reported[j]: as_completed has yielded the future of item j
  handling          \* the item whose future the main thread is handling, 0 if none

vars ==
  <<do_romanize, embed_lyrics, scan_unsynced, is_dir, walk, scan,
    songs_to_process, duration, pc, exact_response,
    search_response, best_match, fetched, lrc_content, printed, lrc_file,
    lyrics_tag, tracker, lock, inc, counted, cpc, submitted, reported,
    handling>>

args == <<do_romanize, embed_lyrics, scan_unsynced, duration>>
phase1 == <<is_dir, walk, scan, songs_to_process>>
fetch_locals == <<exact_response, search_response, best_match>>
disk == <<lrc_file, lyrics_tag>>
pool == <<cpc, submitted, reported, handling>>
counters == <<tracker, lock, inc, counted>>

\* No increment_* call in progress.
NoCall == [counter |-> "", step |-> "idle", tmp |-> 0]

\* The unsynced lyric file an upgrade attempt starts from.
OldPlain == <<"n">>

\* The .lrc file of a queued song when the scan ends (lines 295-313): in
\* upgrade mode an unsynced file, in default mode no file.
ScannedFile(upgrade) == IF upgrade THEN OldPlain ELSE None

\* The locals of the scan loop when it has looked at the files before walk[pos];
\* synced[j] is what the loop found out about the .lrc file of walk[j].
ScanLocals(pos, total_files, lrc_skipped, lrc_upgrades_needed, synced) ==
  [pos |-> pos, total_files |-> total_files, lrc_skipped |-> lrc_skipped,
   lrc_upgrades_needed |-> lrc_upgrades_needed, file_synced |-> synced]

\* A library whose scan queues every file: file j lies in folder j, is named
\* a.flac and lasts durations[j] seconds.
QueuedLibrary(durations) ==
  [j \in DOMAIN durations |->
     File(j, NameA, Metadata(TRUE, TRUE, TRUE, 2 * durations[j]))]

\* The job, tracker and pool variables before phase 2, for the items of `start`.
InitState(start) ==
  /\ pc = start
  /\ exact_response = [j \in DOMAIN start |-> NoResponse]
  /\ search_response = [j \in DOMAIN start |-> NoResponse]
  /\ best_match = [j \in DOMAIN start |-> 0]
  /\ fetched = [j \in DOMAIN start |-> None]
  /\ lrc_content = [j \in DOMAIN start |-> None]
  /\ lyrics_tag = [j \in DOMAIN start |-> None]
  /\ tracker = [c \in Counters |-> 0]
  /\ lock = {}
  /\ inc = [t \in DOMAIN start \cup {Main} |-> NoCall]
  /\ counted = [j \in DOMAIN start |-> [c \in Counters |-> 0]]
  /\ submitted = 0
  /\ reported = [j \in DOMAIN start |-> FALSE]
  /\ handling = 0

\* The state after the scan of process_music_library (lines 280-333) with
\* every file of the library queued and a fresh ProgressTracker.
InitWith(flags, durations, start) ==
  /\ do_romanize \in flags
  /\ embed_lyrics \in flags
  /\ scan_unsynced \in flags
  /\ duration \in durations
  /\ is_dir = TRUE
  /\ walk = QueuedLibrary(duration)
  /\ scan = ScanLocals(Len(walk) + 1, Len(walk), 0,
                       IF scan_unsynced THEN Len(walk) ELSE 0,
                       [j \in DOMAIN walk |->
                          IF scan_unsynced THEN "unsynced" ELSE "unset"])
  /\ songs_to_process =
       [j \in DOMAIN walk |-> WorkItem(walk[j], duration[j], scan_unsynced)]
  /\ lrc_file = [j \in DOMAIN start |-> ScannedFile(scan_unsynced)]
  /\ printed = [j \in DOMAIN start |->
                  IF scan_unsynced THEN {"will_upgrade"} ELSE {}]
  /\ cpc = "submit"
  /\ InitState(start)

\* The item (the index in walk) that a queued song belongs to.
ItemOf(song) == CHOOSE j \in DOMAIN walk : FlacPath(walk[j]) = song.flac_path
\* The queued song of item j.
SongOf(j) ==
  CHOOSE song \in {songs_to_process[i] : i \in DOMAIN songs_to_process} :
    song.flac_path = FlacPath(walk[j])
\* The items the scan queued.
Queued == {ItemOf(songs_to_process[i]) : i \in DOMAIN songs_to_process}

\* song_info.get('upgrade_attempt', False)
is_upgrade_attempt(j) == SongOf(j).upgrade_attempt

Goto(j, where) == pc' = [pc EXCEPT ![j] = where]
Prints(j, msg) == printed' = [printed EXCEPT ![j] = @ \cup {msg}]

\* ------------------------------------------------------- ProgressTracker

\* Thread t calls tracker.increment_<c>() on behalf of item j.
Call(t, j, c) ==
  /\ inc' = [inc EXCEPT ![t] = [counter |-> c, step |-> "acquire", tmp |-> 0]]
  /\ counted' = [counted EXCEPT ![j][c] = @ + 1]

\* `with self.lock:` is entered only when no thread holds the lock.
Unguarded == TRUE
LockFree == lock = {}

\* with self.lock: __enter__
Acquire(t) ==
  /\ inc[t].step = "acquire"
  /\ LockFree
  /\ lock' = lock \cup {t}
  /\ inc' = [inc EXCEPT ![t].step = "load"]
  /\ UNCHANGED <<tracker, counted>>

\* self.<c> += 1, first half: the attribute is read.
Load(t) ==
  /\ inc[t].step = "load"
  /\ inc' = [inc EXCEPT ![t].step = "store", ![t].tmp = tracker[inc[t].counter]]
  /\ UNCHANGED <<tracker, lock, counted>>

\* self.<c> += 1, second half: the sum is written back.
Store(t) ==
  /\ inc[t].step = "store"
  /\ tracker' = [tracker EXCEPT ![inc[t].counter] = inc[t].tmp + 1]
  /\ inc' = [inc EXCEPT ![t].step = "release"]
  /\ UNCHANGED <<lock, counted>>

\* with self.lock: __exit__, and the return to the caller.
Release(t) ==
  /\ inc[t].step = "release"
  /\ lock' = lock \ {t}
  /\ inc' = [inc EXCEPT ![t] = NoCall]
  /\ UNCHANGED <<tracker, counted>>

\* A process_song that goes on to the embedding after any counter but romanized.
EmbedsAfterAnyIncrement(c) ==
  IF c = "romanized" THEN "write"
  ELSE IF embed_lyrics /\ c # "embedded" THEN "embed" ELSE "returned"

\* Where process_song goes on after increment_<c>() returns.
AfterIncrement(c) ==
  IF c = "romanized" THEN "write"
  ELSE IF c \in {"found", "upgraded"}
       THEN IF embed_lyrics THEN "embed" ELSE "returned"
       ELSE "returned"

\* ------------------------------------------------- fetch_lrc_from_lrclib

\* Lines 168-170: the exception handler of fetch_lrc_from_lrclib.
Reraised(j) ==
  /\ Prints(j, "fetch_error")
  /\ fetched' = [fetched EXCEPT ![j] = None]
  /\ Goto(j, "raised")
Caught(j) ==
  /\ Prints(j, "fetch_error")
  /\ fetched' = [fetched EXCEPT ![j] = None]
  /\ Goto(j, "fetch_return")

\* Lines 125-137: attempt 1, the exact lookup, answered by one of `answers`.
ExactLookup(j, answers) ==
  /\ pc[j] = "fetch_exact"
  /\ \E r \in answers :
       /\ exact_response' = [exact_response EXCEPT ![j] = r]
       /\ \/ /\ ExactStep(r) = "caught"
             /\ Caught(j)
          \/ /\ ExactStep(r) = "return"
             /\ fetched' = [fetched EXCEPT ![j] = ExactText(r)]
             /\ Goto(j, "fetch_return")
             /\ UNCHANGED printed
          \/ /\ ExactStep(r) = "fuzzy"
             /\ Goto(j, "fetch_search")
             /\ UNCHANGED <<fetched, printed>>
  /\ UNCHANGED <<args, phase1, search_response, best_match, lrc_content, disk,
                 counters, pool>>

\* Lines 139-166: attempt 2, the fuzzy search, answered by one of `answers`.
FuzzySearch(j, answers) ==
  /\ pc[j] = "fetch_search"
  /\ \E r \in answers :
       /\ search_response' = [search_response EXCEPT ![j] = r]
       /\ \/ /\ SearchStep(r) = "caught"
             /\ Caught(j)
             /\ UNCHANGED best_match
          \/ /\ SearchStep(r) = "return"
             /\ r.status # StatusOK \/ r.results = <<>>
             /\ fetched' = [fetched EXCEPT ![j] = None]
             /\ Goto(j, "fetch_return")
             /\ UNCHANGED <<best_match, printed>>
          \/ /\ SearchStep(r) = "return"
             /\ r.status = StatusOK /\ r.results # <<>>
             /\ LET best == BestMatch(r.results, duration[j])
                IN /\ best_match' = [best_match EXCEPT ![j] = best]
                   /\ fetched' =
                        [fetched EXCEPT ![j] = CandidateText(r.results[best])]
             /\ Goto(j, "fetch_return")
             /\ UNCHANGED printed
  /\ UNCHANGED <<args, phase1, exact_response, lrc_content, disk, counters, pool>>

\* The return to line 182: the locals of fetch_lrc_from_lrclib are gone.
FetchReturn(j) ==
  /\ exact_response' = [exact_response EXCEPT ![j] = NoResponse]
  /\ search_response' = [search_response EXCEPT ![j] = NoResponse]
  /\ best_match' = [best_match EXCEPT ![j] = 0]
  /\ lrc_content' = [lrc_content EXCEPT ![j] = fetched[j]]

\* ----------------------------------------------------------- process_song

\* Line 188: the candidate is turned down.
RejectsUnsynced(upgrade, content_is_synced) == ~content_is_synced
Rejects(upgrade, content_is_synced) == upgrade /\ ~content_is_synced

\* Lines 222-224: no lyrics were fetched.
NoLyrics(j) ==
  /\ Prints(j, "no_lyrics")
  /\ Call(j, j, "not_found")
  /\ Goto(j, "inc")

\* Lines 182-194 and 222-224: fetch_lrc_from_lrclib returns and the candidate
\* is arbitrated.
Arbitrate(j) ==
  /\ pc[j] = "fetch_return"
  /\ FetchReturn(j)
  /\ \/ /\ ~Truthy(fetched[j])
        /\ NoLyrics(j)
     \/ /\ Truthy(fetched[j])
        /\ Rejects(is_upgrade_attempt(j), check_if_content_synced(fetched[j]))
        /\ Prints(j, "keeping")
        /\ Goto(j, "returned")
        /\ UNCHANGED <<inc, counted>>
     \/ /\ Truthy(fetched[j])
        /\ ~Rejects(is_upgrade_attempt(j), check_if_content_synced(fetched[j]))
        /\ Goto(j, IF do_romanize THEN "romanize" ELSE "write")
        /\ UNCHANGED <<inc, counted, printed>>
  /\ UNCHANGED <<args, phase1, fetched, disk, tracker, lock, pool>>

\* Lines 194-199.  A romanization engine that raises ends the job with an
\* exception that process_song does not catch (it is no IOError).
Romanize(j) ==
  /\ pc[j] = "romanize"
  /\ \/ /\ convert_lrc_content(lrc_content[j]) # lrc_content[j]
        /\ lrc_content' =
             [lrc_content EXCEPT ![j] = convert_lrc_content(lrc_content[j])]
        /\ Prints(j, "romanized")
        /\ Call(j, j, "romanized")
        /\ Goto(j, "inc")
     \/ /\ convert_lrc_content(lrc_content[j]) = lrc_content[j]
        /\ Goto(j, "write")
        /\ UNCHANGED <<lrc_content, inc, counted, printed>>
     \/ /\ EngineRuns(lrc_content[j])
        /\ Goto(j, "raised")
        /\ UNCHANGED <<lrc_content, inc, counted, printed>>
  /\ UNCHANGED <<args, phase1, fetch_locals, fetched, disk, tracker, lock, pool>>

\* Lines 205-210: the counter of a saved file.
SavedCounter(upgrade) == IF upgrade THEN "upgraded" ELSE "found"

\* Lines 219-221: the IOError handler of process_song.
SaveError(j) ==
  /\ Prints(j, "save_error")
  /\ Call(j, j, "errors")

\* Lines 201-210 and 219-221: the .lrc file is written; or open() raises
\* IOError (the file is as it was); or f.write() raises IOError (the file was
\* truncated by open); or f.write() raises an exception that is no IOError
\* (UnicodeEncodeError for a lone surrogate), which process_song does not catch.
WriteFile(j) ==
  /\ pc[j] = "write"
  /\ \/ /\ lrc_file' = [lrc_file EXCEPT ![j] = lrc_content[j]]
        /\ Prints(j, "saved")
        /\ Call(j, j, SavedCounter(is_upgrade_attempt(j)))
        /\ Goto(j, "inc")
     \/ /\ UNCHANGED lrc_file
        /\ SaveError(j)
        /\ Goto(j, "inc")
     \/ /\ lrc_file' = [lrc_file EXCEPT ![j] = <<>>]
        /\ SaveError(j)
        /\ Goto(j, "inc")
     \/ /\ lrc_file' = [lrc_file EXCEPT ![j] = <<>>]
        /\ Goto(j, "raised")
        /\ UNCHANGED <<inc, counted, printed>>
  /\ UNCHANGED <<args, phase1, fetch_locals, fetched, lrc_content, lyrics_tag,
                 tracker, lock, pool>>

\* Lines 119-121, and 215 with success False: what embed_lyrics_into_flac and
\* its caller do when FLAC() or save() raises.
EmbedError(j) ==
  /\ Prints(j, "embed_error")
  /\ Goto(j, "returned")
  /\ UNCHANGED <<inc, counted>>

\* Lines 213-217 with embed_lyrics_into_flac (112-121).
Embed(j) ==
  /\ pc[j] = "embed"
  /\ \/ /\ lyrics_tag' = [lyrics_tag EXCEPT ![j] = lrc_content[j]]
        /\ Prints(j, "embedded")
        /\ Call(j, j, "embedded")
        /\ Goto(j, "inc")
     \/ /\ EmbedError(j)
        /\ UNCHANGED lyrics_tag
  /\ UNCHANGED <<args, phase1, fetch_locals, fetched, lrc_content, lrc_file, tracker,
                 lock, pool>>

\* The job's thread inside an increment_* call.
Increment(j) ==
  /\ pc[j] = "inc"
  /\ \/ Acquire(j) /\ UNCHANGED pc
     \/ Load(j) /\ UNCHANGED pc
     \/ Store(j) /\ UNCHANGED pc
     \/ Release(j) /\ Goto(j, AfterIncrement(inc[j].counter))
  /\ UNCHANGED <<args, phase1, fetch_locals, fetched, lrc_content, printed, disk, pool>>

\* ------------------------------------------------- process_music_library

\* Lines 273-275: music_dir is looked at.
CheckDir ==
  /\ cpc = "start"
  /\ cpc' = IF is_dir THEN "scan" ELSE "not_a_directory"
  /\ UNCHANGED <<args, phase1, pc, fetch_locals, fetched, lrc_content, printed,
                 disk, counters, submitted, reported, handling>>

\* What check_if_file_synced(lrc_path) can return for the .lrc file: False when
\* open() or read() raises (lines 70-71).
FileSyncedResults(lrc) ==
  IF lrc = None THEN {FALSE} ELSE {check_if_file_synced(lrc), FALSE}

\* Lines 287-313: what the loop decides for a file from its name, the mode,
\* whether its .lrc file exists and what check_if_file_synced returned.
ScanDecision(name, upgrade_mode, lrc_exists, file_is_synced) ==
  IF ~IsFlac(name) THEN "not_audio"
  ELSE IF upgrade_mode
       THEN IF lrc_exists
            THEN IF file_is_synced THEN "skip_synced" ELSE "upgrade"
            ELSE "skip_missing"
       ELSE IF lrc_exists THEN "skip_existing" ELSE "fetch"

\* Lines 316-320: the messages printed about a file that is to be processed.
ScanMessages(decision, meta) ==
  (IF decision = "upgrade" THEN {"will_upgrade"} ELSE {})
  \cup (IF MetadataMessage(meta) # "" THEN {MetadataMessage(meta)} ELSE {})

\* Lines 286-325: one iteration of the scan loop, for the file walk[scan.pos].
ScanFile ==
  /\ cpc = "scan"
  /\ scan.pos <= Len(walk)
  /\ \E file_is_synced \in FileSyncedResults(lrc_file[scan.pos]) :
       LET j == scan.pos
           file == walk[j]
           decision == ScanDecision(file.name, scan_unsynced,
                                    lrc_file[j] # None, file_is_synced)
           process == decision \in {"upgrade", "fetch"}
           meta == get_flac_metadata(file.meta)
           queue == process /\ AllPresent(meta)
       IN /\ scan' =
               ScanLocals(
                 j + 1,
                 scan.total_files + (IF decision # "not_audio" THEN 1 ELSE 0),
                 scan.lrc_skipped
                   + (IF decision \in {"skip_synced", "skip_existing"} THEN 1 ELSE 0),
                 scan.lrc_upgrades_needed + (IF decision = "upgrade" THEN 1 ELSE 0),
                 [scan.file_synced EXCEPT ![j] =
                    IF decision = "skip_synced" THEN "synced"
                    ELSE IF decision = "upgrade" THEN "unsynced"
                    ELSE @])
          /\ printed' = [printed EXCEPT ![j] =
                           IF process THEN @ \cup ScanMessages(decision, file.meta)
                           ELSE @]
          /\ songs_to_process' =
               IF queue
               THEN Append(songs_to_process,
                           WorkItem(file, meta.duration, decision = "upgrade"))
               ELSE songs_to_process
          /\ Goto(j, IF queue THEN "queued" ELSE "skipped")
  /\ UNCHANGED <<args, is_dir, walk, fetch_locals, fetched, lrc_content, disk,
                 counters, pool>>

\* Lines 327-333: the loop has ended; with an empty queue
\* process_music_library returns, otherwise the tracker is made and phase 2
\* begins.
EndScan ==
  /\ cpc = "scan"
  /\ scan.pos > Len(walk)
  /\ cpc' = IF songs_to_process = <<>> THEN "no_songs" ELSE "submit"
  /\ UNCHANGED <<args, phase1, pc, fetch_locals, fetched, lrc_content, printed,
                 disk, counters, submitted, reported, handling>>

Running(j) ==
  pc[j] \in {"fetch_exact", "fetch_search", "fetch_return", "romanize", "write",
            "embed", "inc"}
Finished(j) == pc[j] \in {"returned", "raised"}

\* Line 336: the song the dict comprehension is at.
FirstSong == songs_to_process[1]
NextSong == songs_to_process[submitted + 1]

\* Line 336: executor.submit for the next song of songs_to_process.
Submit ==
  /\ cpc = "submit"
  /\ submitted < Len(songs_to_process)
  /\ submitted' = submitted + 1
  /\ Goto(ItemOf(NextSong), "pending")
  /\ cpc' = IF submitted + 1 = Len(songs_to_process) THEN "wait" ELSE "submit"
  /\ UNCHANGED <<args, phase1, fetch_locals, fetched, lrc_content, printed, disk,
                 counters, reported, handling>>

\* ThreadPoolExecutor(max_workers=MAX_WORKERS): a thread is there to take a
\* job while fewer than MAX_WORKERS jobs are running.
NoWorkerLimit == TRUE
WorkerFree == Cardinality({k \in DOMAIN pc : Running(k)}) < MAX_WORKERS

\* A worker thread of the pool takes a submitted job.
StartJob(j) ==
  /\ pc[j] = "pending"
  /\ WorkerFree
  /\ Goto(j, "fetch_exact")
  /\ UNCHANGED <<args, phase1, fetch_locals, fetched, lrc_content, printed, disk,
                 counters, pool>>

\* Lines 340-342: what the main thread does with the exception of a future.
Crash(j) ==
  /\ cpc' = "crashed"
  /\ UNCHANGED <<inc, counted, printed, handling, reported>>
OnException(j) ==
  /\ Prints(j, "exception")
  /\ Call(Main, j, "errors")
  /\ handling' = j
  /\ cpc' = "count_error"
  /\ UNCHANGED reported

\* Lines 337-342: as_completed yields a finished future and future.result()
\* returns or raises.
TakeCompleted(j) ==
  /\ cpc = "wait"
  /\ ~reported[j]
  /\ Finished(j)
  /\ IF pc[j] = "raised"
     THEN OnException(j)
     ELSE /\ reported' = [reported EXCEPT ![j] = TRUE]
          /\ UNCHANGED <<inc, counted, printed, handling, cpc>>
  /\ UNCHANGED <<args, phase1, pc, fetch_locals, fetched, lrc_content, disk, tracker,
                 lock, submitted>>

\* Line 342: the main thread inside increment_errors.
CountError ==
  /\ cpc = "count_error"
  /\ \/ Acquire(Main) /\ UNCHANGED <<cpc, reported, handling>>
     \/ Load(Main) /\ UNCHANGED <<cpc, reported, handling>>
     \/ Store(Main) /\ UNCHANGED <<cpc, reported, handling>>
     \/ /\ Release(Main)
        /\ reported' = [reported EXCEPT ![handling] = TRUE]
        /\ handling' = 0
        /\ cpc' = "wait"
  /\ UNCHANGED <<args, phase1, pc, fetch_locals, fetched, lrc_content, printed, disk,
                 submitted>>

\* Lines 337 and 344-359: every future has been yielded, the pool is shut
\* down and the summary is printed.
Summary ==
  /\ cpc = "wait"
  /\ \A j \in Queued : reported[j]
  /\ cpc' = "finished"
  /\ UNCHANGED <<args, phase1, pc, fetch_locals, fetched, lrc_content, printed, disk,
                 counters, submitted, reported, handling>>

\* ------------------------------------------------------- specifications

\* What the remote service answers in a whole run.
RunExact ==
  { RequestRaises,
    ExactResponse(FALSE, 404, "unset", None, None),
    ExactResponse(FALSE, StatusOK, "ok", SyncedH, PlainH),
    ExactResponse(FALSE, StatusOK, "ok", None, PlainA) }
RunSearch ==
  { RequestRaises,
    SearchResponse(FALSE, StatusOK, "ok", <<>>),
    SearchResponse(FALSE, StatusOK, "ok",
                   <<Candidate(None, PlainA, TRUE, 1)>>) }

Job(j) ==
  \/ StartJob(j)
  \/ ExactLookup(j, RunExact)
  \/ FuzzySearch(j, RunSearch)
  \/ Arbitrate(j)
  \/ Romanize(j)
  \/ WriteFile(j)
  \/ Embed(j)
  \/ Increment(j)

Coordinator ==
  \/ Submit
  \/ \E j \in Items : TakeCompleted(j)
  \/ CountError
  \/ Summary

\* Every queued song has a duration (line 320); item j lasts j seconds.
Init == InitWith(BOOLEAN, {[j \in Items |-> j]}, [j \in Items |-> "queued"])

Next == Coordinator \/ \E j \in Items : Job(j)

\* A whole run of process_music_library after the scan.
Spec == Init /\ [][Next]_vars

\* The same run with every thread scheduled as long as it can take a step.
Fairness == WF_vars(Coordinator) /\ \A j \in Items : WF_vars(Job(j))
FairSpec == Spec /\ Fairness

\* A lyric file with timestamps that a library can hold when the scan starts.
OldSynced == <<"[", "0", "0", ":", "0", "0", "]", "n">>
\* The .lrc files a library can hold: none, an unsynced one, a synced one.
OldFiles == {None, OldPlain, OldSynced}

\* What mutagen can read from an audio file: an unreadable file, a missing
\* artist, a missing title, and lengths of 0, 0.5, 1 and 1.5 seconds.
Metadatas ==
  { Metadata(FALSE, FALSE, FALSE, 0),
    Metadata(TRUE, FALSE, TRUE, 2),
    Metadata(TRUE, TRUE, FALSE, 2) }
  \cup {Metadata(TRUE, TRUE, TRUE, l) : l \in 0..3}

\* The files of one folder: a.flac, a.FLAC, b.flac and a.jpg.
Names == {NameA, NameAUpper, NameB, NameCover}
FolderFiles ==
  {File(1, n, m) : n \in Names \ {NameCover}, m \in Metadatas}
  \cup {File(1, NameCover, Metadata(FALSE, FALSE, FALSE, 0))}

\* os.walk yields every file once; files with one .lrc path see one .lrc file.
Libraries ==
  {w \in [Items -> FolderFiles] :
     \A j, k \in Items : j # k => FlacPath(w[j]) # FlacPath(w[k])}
LrcFiles(w) ==
  {f \in [Items -> OldFiles] :
     \A j, k \in Items : LrcPath(w[j]) = LrcPath(w[k]) => f[j] = f[k]}

\* The state when process_music_library is called on one of `libraries`.
InitScan(flags, modes, dirs, libraries) ==
  /\ do_romanize \in flags
  /\ embed_lyrics \in flags
  /\ scan_unsynced \in modes
  /\ is_dir \in dirs
  /\ walk \in libraries
  /\ duration = [j \in Items |-> get_flac_metadata(walk[j].meta).duration]
  /\ scan = ScanLocals(1, 0, 0, 0, [j \in Items |-> "unset"])
  /\ songs_to_process = <<>>
  /\ lrc_file \in LrcFiles(walk)
  /\ printed = [j \in Items |-> {}]
  /\ cpc = "start"
  /\ InitState([j \in Items |-> "unscanned"])

\* Phase 1 of process_music_library on every library of MaxItems files of one
\* folder.
Scan ==
  \/ CheckDir
  \/ ScanFile
  \/ EndScan
InitFolder == InitScan({FALSE}, BOOLEAN, BOOLEAN, Libraries)
SpecScan == InitFolder /\ [][Scan]_vars

\* A whole run, scan included, on libraries of MaxItems audio files, each in
\* its own folder with any of the .lrc files beside it.
AlbumFiles(j) ==
  {File(j, NameA, m) :
     m \in {Metadata(TRUE, TRUE, TRUE, 2 * j), Metadata(FALSE, FALSE, FALSE, 0)}}
Albums == {w \in [Items -> UNION {AlbumFiles(j) : j \in Items}] :
             \A j \in Items : w[j] \in AlbumFiles(j)}
InitRun == InitScan(BOOLEAN, BOOLEAN, BOOLEAN, Albums)
NextRun == Scan \/ Next
SpecRun == InitRun /\ [][NextRun]_vars
FairRun == SpecRun /\ WF_vars(Scan) /\ Fairness

\* One call fetch_lrc_from_lrclib(artist, title, duration) for item 1, for
\* every duration (0: none) and every answer of the service within the bounds.
SeqsUpTo(S, n) == UNION {[1..k -> S] : k \in 0..n}
Texts(t) == {None, t}
Candidates ==
  {Candidate(sy, pl, TRUE, d) :
     sy \in Texts(SyncedA), pl \in Texts(PlainA), d \in 0..MaxDur}
  \cup {Candidate(sy, pl, FALSE, 0) : sy \in Texts(SyncedA), pl \in Texts(PlainA)}
AllExact ==
  { RequestRaises,
    ExactResponse(FALSE, 404, "unset", None, None),
    ExactResponse(FALSE, StatusOK, "bad", None, None) }
  \cup {ExactResponse(FALSE, StatusOK, "ok", sy, pl) :
          sy \in {None, <<>>, SyncedA}, pl \in Texts(PlainA)}
AllSearch ==
  { RequestRaises,
    SearchResponse(FALSE, 404, "unset", <<>>),
    SearchResponse(FALSE, StatusOK, "bad", <<>>) }
  \cup {SearchResponse(FALSE, StatusOK, "ok", rs) :
          rs \in SeqsUpTo(Candidates, MaxResults)}

InitResolve ==
  /\ do_romanize = FALSE
  /\ embed_lyrics = FALSE
  /\ scan_unsynced = FALSE
  /\ duration \in {[j \in Items |-> d] : d \in 0..MaxDur}
  /\ is_dir = TRUE
  /\ walk = <<>>
  /\ scan = ScanLocals(1, 0, 0, 0, <<>>)
  /\ songs_to_process = <<>>
  /\ lrc_file = [j \in Items |-> None]
  /\ printed = [j \in Items |-> {}]
  /\ cpc = "scan"
  /\ InitState([j \in Items |-> IF j = 1 THEN "fetch_exact" ELSE "unscanned"])

NextResolve ==
  \/ ExactLookup(1, AllExact)
  \/ FuzzySearch(1, AllSearch)

SpecResolve == InitResolve /\ [][NextResolve]_vars


\* The pieces lyric texts are made of: a timestamp, a Latin letter, a Hangul
\* syllable, a kana, a blank, a line break and the head of a metadata tag.
Pieces ==
  {Stamp, <<"a">>, <<"H">>, <<"J">>, <<" ">>, <<"\n">>, <<"[", "a", ":">>}
Concat[pieces \in Seq(Pieces)] ==
  IF pieces = <<>> THEN <<>> ELSE Head(pieces) \o Concat[Tail(pieces)]
\* Every non-empty text of up to MaxPieces pieces.
InputTexts == {Concat[ps] : ps \in SeqsUpTo(Pieces, MaxPieces)} \ {<<>>}
TextAnswers == {ExactResponse(FALSE, StatusOK, "ok", None, t) : t \in InputTexts}

\* The job of item 1 with every text as what the exact lookup returns: the
\* text is arbitrated, transformed when --romanize is given, and saved.
InitTransform ==
  InitWith(BOOLEAN, {[j \in Items |-> j]},
           [j \in Items |-> IF j = 1 THEN "fetch_exact" ELSE "queued"])
NextTransform ==
  \/ ExactLookup(1, TextAnswers)
  \/ Arbitrate(1)
  \/ Romanize(1)
  \/ WriteFile(1)
  \/ Embed(1)
  \/ Increment(1)
SpecTransform == InitTransform /\ [][NextTransform]_vars


\* A queue longer than the pool has workers.
PoolItems == 1..(MAX_WORKERS + MaxWaiting)

\* process_song(song, ...) of a started job runs from line 173 to its return,
\* its steps not told apart.
RunJob(j) ==
  /\ pc[j] = "fetch_exact"
  /\ Goto(j, "returned")
  /\ UNCHANGED <<args, phase1, fetch_locals, fetched, lrc_content, printed,
                 disk, counters, pool>>

\* Lines 335-336 with MAX_WORKERS + MaxWaiting songs queued: the songs are
\* submitted and the workers of the pool take and run them.
InitPool ==
  InitWith({FALSE}, {[j \in PoolItems |-> 1]}, [j \in PoolItems |-> "queued"])
\* The executor's work queue is first in, first out: a free worker takes the
\* job that was submitted first among those that wait.
FirstPending(j) ==
  \A i \in 1..submitted :
    ItemOf(songs_to_process[i]) = j =>
      \A k \in 1..(i - 1) : pc[ItemOf(songs_to_process[k])] # "pending"
TakeJob(j) == FirstPending(j) /\ StartJob(j)
NextPool ==
  \/ Submit
  \/ \E j \in PoolItems : TakeJob(j)
  \/ \E j \in PoolItems : RunJob(j)
SpecPool == InitPool /\ [][NextPool]_vars
\* The main thread and the workers go on as long as they can take a step.
FairPool == SpecPool /\ WF_vars(NextPool)


\* ------------------------------------------------------------------ claims

\* The exact lookup was answered with status 200 and a body that parses.
ExactAnswered(j) ==
  /\ ~exact_response[j].raises
  /\ exact_response[j].status = 200
  /\ exact_response[j].json = "ok"

\* The fuzzy search was answered with a list of at least one candidate.
SearchAnswered(j) ==
  /\ ~search_response[j].raises
  /\ search_response[j].status = 200
  /\ search_response[j].json = "ok"
  /\ search_response[j].results # <<>>

SearchIssued(j) == search_response[j] # NoResponse

\* C3: when the exact lookup answers with a synced text, that text is what
\* fetch_lrc_from_lrclib returns; when it answers with a plain text and no
\* synced text, the plain text is returned; in both cases the call is at its
\* return and the fuzzy search has not been issued.
C3_ExactShortCircuits ==
  \A j \in Items :
    LET e == exact_response[j]
    IN ExactAnswered(j) =>
         /\ Truthy(e.synced) =>
              /\ pc[j] = "fetch_return"
              /\ fetched[j] = e.synced
              /\ ~SearchIssued(j)
         /\ (~Truthy(e.synced) /\ Truthy(e.plain)) =>
              /\ pc[j] = "fetch_return"
              /\ fetched[j] = e.plain
              /\ ~SearchIssued(j)

\* C3 witness: a plain-only exact answer was returned without a search.
C3_Witness ==
  \E j \in Items :
    /\ ExactAnswered(j)
    /\ ~Truthy(exact_response[j].synced)
    /\ exact_response[j].plain = PlainA
    /\ pc[j] = "fetch_return"
    /\ fetched[j] = PlainA
    /\ ~SearchIssued(j)

\* The exact lookup yielded nothing usable, as C4 lists it: a non-200 status,
\* an unparsable body, or an answer with neither text.
ExactUnusable(j) ==
  LET e == exact_response[j]
  IN /\ ~e.raises
     /\ \/ e.status # 200
        \/ e.json = "bad"
        \/ e.json = "ok" /\ ~Truthy(e.synced) /\ ~Truthy(e.plain)

\* C4: whenever the exact lookup yields nothing usable, the fuzzy search has
\* been issued by the time fetch_lrc_from_lrclib returns.
C4_SearchAfterUnusableExact ==
  \A j \in Items :
    (pc[j] = "fetch_return" /\ ExactUnusable(j)) => SearchIssued(j)

\* The candidates whose reported duration is within 3 seconds of the target:
\* a candidate that reports no duration is not among them.
ReportedWithin(j) ==
  LET rs == search_response[j].results
  IN {i \in 1..Len(rs) :
        rs[i].hasDuration /\ Abs(rs[i].duration - duration[j]) <= 3}

\* The same with a candidate that reports no duration counted as reporting 0.
CountedWithin(j) ==
  LET rs == search_response[j].results
  IN {i \in 1..Len(rs) :
        Abs((IF rs[i].hasDuration THEN rs[i].duration ELSE 0) - duration[j]) <= 3}

\* C5 as claimed: with a known target duration the candidate is selected among
\* those whose reported duration is within 3 seconds whenever there is one,
\* and otherwise the first candidate of the list is selected.
C5_ReportedDurationFilter ==
  \A j \in Items :
    SearchAnswered(j) =>
      IF duration[j] # 0 /\ ReportedWithin(j) # {}
      THEN best_match[j] \in ReportedWithin(j)
      ELSE best_match[j] = 1

\* C5 amended: the same, a candidate without a duration counting as duration 0.
C5_DurationFilter ==
  \A j \in Items :
    SearchAnswered(j) =>
      IF duration[j] # 0 /\ CountedWithin(j) # {}
      THEN best_match[j] \in CountedWithin(j)
      ELSE best_match[j] = 1

\* C5 witness: the first candidate is 4 seconds off, the second 3 seconds off,
\* and the second is selected.
C5_Witness ==
  \E j \in Items :
    LET rs == search_response[j].results
    IN /\ SearchAnswered(j)
       /\ Len(rs) = 2
       /\ rs[1].hasDuration /\ Abs(rs[1].duration - duration[j]) = 4
       /\ rs[2].hasDuration /\ Abs(rs[2].duration - duration[j]) = 3
       /\ best_match[j] = 2

\* C6: within the duration-filtered set the selected candidate has a synced
\* text if any candidate of the set has one, and no candidate of the set with
\* the same synced-ness has a smaller duration difference.
C6_TieBreak ==
  \A j \in Items :
    (SearchAnswered(j) /\ duration[j] # 0 /\ CountedWithin(j) # {}) =>
      LET rs == search_response[j].results
          b == best_match[j]
          HasSynced(i) == rs[i].synced # None /\ rs[i].synced # <<>>
          D(i) == Abs((IF rs[i].hasDuration THEN rs[i].duration ELSE 0)
                      - duration[j])
      IN /\ b \in CountedWithin(j)
         /\ (\E i \in CountedWithin(j) : HasSynced(i)) => HasSynced(b)
         /\ \A i \in CountedWithin(j) :
              (HasSynced(i) <=> HasSynced(b)) => D(b) <= D(i)

\* C6 witness: an unsynced candidate with difference 0 listed before a synced
\* one with difference 2, and the synced one selected.
C6_Witness ==
  \E j \in Items :
    LET rs == search_response[j].results
    IN /\ SearchAnswered(j)
       /\ Len(rs) = 2
       /\ rs[1].hasDuration /\ rs[1].duration = duration[j]
       /\ rs[1].synced = None /\ rs[1].plain = PlainA
       /\ rs[2].hasDuration /\ Abs(rs[2].duration - duration[j]) = 2
       /\ rs[2].synced = SyncedA
       /\ best_match[j] = 2
       /\ fetched[j] = SyncedA


\* w is a bracketed timestamp: [MM:SS], [MM:SS.xx] or [MM:SS.xxx].
IsStamp(w) ==
  /\ Len(w) \in {7, 10, 11}
  /\ w[1] = "[" /\ w[Len(w)] = "]"
  /\ w[2] \in {"0", "1"} /\ w[3] \in {"0", "1"}
  /\ w[4] = ":"
  /\ w[5] \in {"0", "1"} /\ w[6] \in {"0", "1"}
  /\ Len(w) > 7 => (w[7] = "." /\ \A k \in 8..(Len(w) - 1) : w[k] \in {"0", "1"})

\* The text contains a bracketed timestamp.
HasTimestamp(text) ==
  \E a \in 1..Len(text) : \E b \in a..Len(text) : IsStamp(SubSeq(text, a, b))

\* The job of item j is past the arbitration of a non-empty fetched text.
Arbitrated(j) ==
  /\ fetched[j] # None /\ fetched[j] # <<>>
  /\ pc[j] \in {"romanize", "write", "inc", "embed", "returned", "raised"}

\* The job of item j turned its candidate down (line 189).
Rejected(j) == "keeping" \in printed[j]

\* The lyric file of item j holds the job's final text.
FileWritten(j) == lrc_file[j] = lrc_content[j]

\* C1 as claimed: a job with a non-empty fetched text rejects it if and only if
\* it is an upgrade attempt and the text has no timestamp; a rejecting job
\* writes neither the lyric file nor the tag; every other job has written the
\* lyric file when it ends.
C1_AcceptedIsWritten ==
  \A j \in Items :
    Arbitrated(j) =>
      /\ Rejected(j) <=> (scan_unsynced /\ ~HasTimestamp(fetched[j]))
      /\ Rejected(j) =>
           lrc_file[j] = (IF scan_unsynced THEN OldPlain ELSE None)
           /\ lyrics_tag[j] = None
      /\ (~Rejected(j) /\ pc[j] \in {"returned", "raised"}) => FileWritten(j)

\* C1 amended: the same, except that an accepted candidate's file is written
\* unless the write fails with an I/O error or the job ends with an exception
\* (raised by the romanization or by the write).
C1_Arbitration ==
  \A j \in Items :
    Arbitrated(j) =>
      /\ Rejected(j) <=> (scan_unsynced /\ ~HasTimestamp(fetched[j]))
      /\ Rejected(j) =>
           lrc_file[j] = (IF scan_unsynced THEN OldPlain ELSE None)
           /\ lyrics_tag[j] = None
      /\ (~Rejected(j) /\ pc[j] \in {"returned", "raised"}) =>
           \/ FileWritten(j) /\ "saved" \in printed[j]
           \/ "save_error" \in printed[j]
           \/ pc[j] = "raised"

\* C1 witness: in one upgrade run a synced candidate was written over the old
\* file and an unsynced one was turned down.
C1_Witness ==
  \E j, k \in Items :
    /\ scan_unsynced
    /\ pc[j] = "returned" /\ HasTimestamp(fetched[j])
    /\ lrc_file[j] = lrc_content[j] /\ lrc_file[j] # OldPlain
    /\ pc[k] = "returned" /\ Rejected(k) /\ fetched[k] = PlainA
    /\ lrc_file[k] = OldPlain

\* Calls made for item j on the four outcome counters.
OutcomeCalls(j) ==
  counted[j]["found"] + counted[j]["upgraded"] + counted[j]["not_found"]
  + counted[j]["errors"]

\* C2: once the pool has completed, each job has incremented exactly one of
\* found, upgraded, notFound, errors, the four counters add up to the number
\* of queued items, and a rejected upgrade is counted under notFound.
C2_OneOutcomePerItem ==
  cpc = "finished" =>
    /\ \A j \in Items : OutcomeCalls(j) = 1
    /\ tracker["found"] + tracker["upgraded"] + tracker["not_found"]
       + tracker["errors"] = MaxItems
    /\ \A j \in Items : Rejected(j) => counted[j]["not_found"] = 1

\* C7: a step in which the write of the lyric file or of the tag fails counts
\* an error for that item and changes no file and no count of another item.
C7_PersistenceFailureCounted ==
  [][\A j \in Items :
       (\E m \in {"save_error", "embed_error"} :
          m \in printed'[j] /\ m \notin printed[j]) =>
         /\ counted'[j]["errors"] = counted[j]["errors"] + 1
         /\ \A k \in Items \ {j} :
              /\ lrc_file'[k] = lrc_file[k]
              /\ lyrics_tag'[k] = lyrics_tag[k]
              /\ counted'[k] = counted[k]]_vars

SummaryPrinted ==
  /\ cpc = "finished"
  /\ \A j \in Queued : reported[j] /\ pc[j] \in {"returned", "raised"}

\* The run ended before phase 2: the path is no directory (line 275), or the
\* scan queued no song (line 330).
EndedBeforePool ==
  \/ cpc = "not_a_directory" /\ ~is_dir
  \/ cpc = "no_songs" /\ songs_to_process = <<>>

\* C9 as claimed: in every run the main thread reaches the end of the
\* summary, with every job ended and its future reported, whatever jobs
\* failed.
C9_RunCompletes == <>[]SummaryPrinted

\* C9 amended: every run either ends before phase 2, with nothing queued and
\* no summary, or reaches the end of the summary with every job ended and its
\* future reported, whatever jobs failed.
C9_RunEnds == <>[](SummaryPrinted \/ EndedBeforePool)

\* C9 witness: a finished run in which one job ended with an exception and
\* another failed to save its file.
C9_Witness ==
  \E j, k \in Items :
    /\ cpc = "finished"
    /\ pc[j] = "raised" /\ reported[j]
    /\ "save_error" \in printed[k] /\ reported[k]

RECURSIVE CallsUpTo(_, _)
CallsUpTo(c, n) == IF n = 0 THEN 0 ELSE counted[n][c] + CallsUpTo(c, n - 1)

\* C10: a thread reads or writes a counter only while it alone holds the lock,
\* and when the run has finished every counter equals the number of
\* increment calls made on it.
C10_NoLostUpdate ==
  /\ \A t \in Threads :
       inc[t].step \in {"load", "store", "release"} => lock = {t}
  /\ cpc = "finished" =>
       \A c \in Counters : tracker[c] = CallsUpTo(c, MaxItems)

\* C10 witness: a finished run in which a worker and the main thread both
\* incremented errors.
C10_Witness ==
  \E j, k \in Items :
    /\ cpc = "finished"
    /\ pc[j] = "raised"
    /\ "save_error" \in printed[k]
    /\ tracker["errors"] = 2

\* The scan classified the existing lyric file of item j.
ClassifiedSynced(j) == scan.file_synced[j] = "synced"
ClassifiedUnsynced(j) == scan.file_synced[j] = "unsynced"

\* The lyric file of item j changes in this step.
FileChanges(j) == lrc_file'[j] # lrc_file[j]

\* C11: a lyric file that the scan classified synced never changes,
\* and one that it classified unsynced changes only to a text that contains a
\* bracketed timestamp.
C11_OnlySyncedOverwrites ==
  [][\A j \in Items :
       FileChanges(j) =>
         /\ ~ClassifiedSynced(j)
         /\ ClassifiedUnsynced(j) => HasTimestamp(lrc_file'[j])]_vars

\* The number of lines of a text: one more than its line breaks.
NumLines(text) == 1 + Cardinality({i \in 1..Len(text) : text[i] = "\n"})

\* The job of item j has transformed its fetched text (line 196 has returned).
Transformed(j) ==
  /\ do_romanize
  /\ fetched[j] # None /\ fetched[j] # <<>>
  /\ pc[j] \in {"write", "embed", "returned"}
     \/ (pc[j] = "inc" /\ inc[j].counter # "not_found")

\* C12: the transformed text has exactly as many lines as the input text.
C12_LineCountPreserved ==
  \A j \in Items :
    Transformed(j) => NumLines(lrc_content[j]) = NumLines(fetched[j])

\* The queue after a step holds the songs it held before, unchanged and in
\* the same places.
QueueKept ==
  /\ Len(songs_to_process') >= Len(songs_to_process)
  /\ \A i \in 1..Len(songs_to_process) :
       songs_to_process'[i] = songs_to_process[i]

\* C13: a job is submitted only for a queued item that has none yet, is started
\* only once it was submitted, and an item that left the queue never returns to
\* it; when the run has finished a job has run for every queued item; the
\* queued songs are never changed, and after the scan none is added.
C13_ConsumedOnce ==
  [][/\ \A j \in Items :
          /\ (pc'[j] = "pending" /\ pc[j] # "pending") =>
               (pc[j] = "queued" /\ j \in Queued)
          /\ (pc'[j] = "fetch_exact" /\ pc[j] # "fetch_exact") =>
               pc[j] = "pending"
          /\ pc[j] \notin {"unscanned", "queued"} => pc'[j] # "queued"
     /\ cpc' = "finished" =>
          \A j \in Queued : pc'[j] \in {"returned", "raised"}
     /\ QueueKept
     /\ cpc \notin {"start", "scan"} =>
          (songs_to_process' = songs_to_process /\ duration' = duration)]_vars

\* C13 witness: a run has finished in which every file was queued and every
\* job has ended.
C13_Witness ==
  /\ cpc = "finished"
  /\ Len(songs_to_process) = MaxItems
  /\ submitted = MaxItems
  /\ \A j \in Items : pc[j] \in {"returned", "raised"} /\ reported[j]

\* The scan loop is past file j.
Scanned(j) == cpc \notin {"start", "not_a_directory"} /\ scan.pos > j

\* File j is an audio file that the mode selects: in upgrade mode its lyric
\* file exists and was classified unsynced, in default mode it has none.
Eligible(j) ==
  /\ IsFlac(walk[j].name)
  /\ IF scan_unsynced THEN ClassifiedUnsynced(j) ELSE lrc_file[j] = None

\* Artist, title and a duration of at least one second can be read from file j.
MetadataPresent(j) ==
  /\ walk[j].meta.readable
  /\ walk[j].meta.artist /\ walk[j].meta.title
  /\ walk[j].meta.length >= 2

HasSong(j) ==
  \E i \in 1..Len(songs_to_process) :
    songs_to_process[i].flac_path = [dir |-> walk[j].dir, name |-> walk[j].name]

\* C14: a scanned file is in the queue only if its artist, title and duration
\* are present; an eligible file with any of them missing is not in the queue,
\* a warning was printed about it, and no counter has changed.
C14_QueuedOnlyWithMetadata ==
  \A j \in Items :
    Scanned(j) =>
      /\ HasSong(j) => (Eligible(j) /\ MetadataPresent(j))
      /\ (Eligible(j) /\ ~MetadataPresent(j)) =>
           /\ ~HasSong(j)
           /\ printed[j] \cap {"missing_metadata", "metadata_error"} # {}
           /\ \A c \in Counters : tracker[c] = 0

\* C15: any two different songs of the queue differ in their audio path and
\* in their lyric path.
C15_DistinctPaths ==
  \A i, k \in 1..Len(songs_to_process) :
    i # k =>
      /\ songs_to_process[i].flac_path # songs_to_process[k].flac_path
      /\ songs_to_process[i].lrc_path # songs_to_process[k].lrc_path

\* The jobs in progress: started by a worker and not ended.
InProgress == {j \in DOMAIN pc : pc[j] \notin {"unscanned", "skipped", "queued",
                                              "pending", "returned", "raised"}}

\* C16: never more than 10 jobs are in progress, and every queued item's job
\* is eventually run to its end.
C16_BoundedPool ==
  /\ [](Cardinality(InProgress) <= 10)
  /\ <>[](\A j \in DOMAIN pc : pc[j] \in {"returned", "raised"})

\* C16 witness: 10 jobs are in progress and a submitted one waits for a worker.
C16_Witness ==
  /\ Cardinality(InProgress) = 10
  /\ \E j \in DOMAIN pc : pc[j] = "pending"
  /\ Len(songs_to_process) > 10

\* ---------------------------------------------------------------- C17

\* The job of item j has come to the embedding, or has done it.
AtEmbedding(j) ==
  pc[j] = "embed" \/ lyrics_tag[j] # None \/ counted[j]["embedded"] > 0

\* The job's increment_found() / increment_upgraded() call has returned.
SavedCounted(j) ==
  /\ counted[j][SavedCounter(is_upgrade_attempt(j))] = 1
  /\ inc[j].counter \notin {"found", "upgraded"}
  /\ tracker[SavedCounter(is_upgrade_attempt(j))] >= 1

\* C17: a job comes to writing the tag only after its lyric file was written
\* and its found / upgraded increment has returned; the tag holds the text of
\* the lyric file, which is the text after romanization; a job whose write of
\* the lyric file failed writes no tag and makes no embedded increment.
C17_EmbedAfterSave ==
  \A j \in Items :
    /\ AtEmbedding(j) =>
         /\ "saved" \in printed[j]
         /\ lrc_file[j] = lrc_content[j]
         /\ SavedCounted(j)
    /\ lyrics_tag[j] # None => lyrics_tag[j] = lrc_file[j]
    /\ ("save_error" \in printed[j] \/ pc[j] = "raised") =>
         lyrics_tag[j] = None /\ counted[j]["embedded"] = 0

\* C17 witness: in one run a job embedded its romanized text after saving it,
\* and another job's write failed and it embedded nothing.
C17_Witness ==
  \E j, k \in Items :
    /\ embed_lyrics /\ do_romanize
    /\ "embedded" \in printed[j] /\ pc[j] = "returned"
    /\ lyrics_tag[j] = lrc_file[j] /\ lyrics_tag[j] # fetched[j]
    /\ "save_error" \in printed[k] /\ pc[k] = "returned"
    /\ lyrics_tag[k] = None

\* ---------------------------------------------------------------- C18

\* The job of item j made a call on one of the counters cs.
Counts(j, cs) == \E c \in cs : counted[j][c] > 0

\* C18: once the pool has completed, every job that incremented romanized or
\* embedded also incremented found or upgraded, and so romanized and embedded
\* are each at most found + upgraded, also when writes of lyric files failed.
C18_AdditiveCountPersisted ==
  cpc = "finished" =>
    /\ \A j \in Items :
         Counts(j, {"romanized", "embedded"}) => Counts(j, {"found", "upgraded"})
    /\ tracker["romanized"] <= tracker["found"] + tracker["upgraded"]
    /\ tracker["embedded"] <= tracker["found"] + tracker["upgraded"]

\* ---------------------------------------------------------------- C19

\* The fetched text of item j has no Korean and no Japanese character.
NoScript(j) ==
  /\ fetched[j] # None
  /\ ~HasKorean(fetched[j]) /\ ~HasJapanese(fetched[j])

\* C19: with romanization requested, a job whose fetched text has no Korean
\* and no Japanese character makes no romanized increment, and the text it
\* writes to the lyric file is the fetched text.
C19_LatinTextUntouched ==
  \A j \in Items :
    (do_romanize /\ NoScript(j)) =>
      /\ counted[j]["romanized"] = 0
      /\ "saved" \in printed[j] => lrc_file[j] = fetched[j]

====
